---- MODULE Spec2Model ----
(***************************************************************************)
(* Document repository of life-os: the local-filesystem handlers           *)
(*   POST   /api/documents            (create)                             *)
(*   PUT    /api/documents/[...slug]  (update)                             *)
(*   GET    /api/documents/[...slug]  (get, route reader)                  *)
(*   DELETE /api/documents            (delete)                             *)
(*   getDocumentBySlug                (get, library reader)                *)
(* over a filesystem of regular files and directories, and the sync route  *)
(*   POST   /api/sync                 (one pass of local files to GitHub)  *)
(* over the remote tree it mirrors them to.  Strings are TLA+ strings; a   *)
(* character is a string of length one.                                    *)
(***************************************************************************)
EXTENDS Integers, Sequences, FiniteSets, Bags, TLC

VARIABLES files, dirs, req, res, io, pre, remote, sync

vars == <<files, dirs, req, res, io, pre, remote, sync>>

(***************************************************************************)
(* Bounds of the model.                                                    *)
(***************************************************************************)
MaxFiles == 3
MaxTitleLen == 4
MaxLines == 4
MaxDocs == 3

\* Sync passes that get past the secret and the token in one behaviour.
MaxPasses == 2

(***************************************************************************)
(* Characters and strings.                                                 *)
(***************************************************************************)
Ch(s, i) == SubSeq(s, i, i)

From(s, i) == SubSeq(s, i, Len(s))

StartsWith(s, p) == Len(s) >= Len(p) /\ SubSeq(s, 1, Len(p)) = p

EndsWith(s, p) == Len(s) >= Len(p) /\ SubSeq(s, Len(s) - Len(p) + 1, Len(s)) = p

RECURSIVE Find(_, _, _)
\* String.indexOf(pat, from), 1-based; 0 when pat does not occur at or after from.
Find(s, pat, from) ==
    IF from + Len(pat) - 1 > Len(s) THEN 0
    ELSE IF SubSeq(s, from, from + Len(pat) - 1) = pat THEN from
    ELSE Find(s, pat, from + 1)

RECURSIVE FindLast(_, _, _)
\* String.lastIndexOf(c, from) for one character, 1-based; 0 when c does not occur.
FindLast(s, c, from) ==
    IF from < 1 THEN 0
    ELSE IF SubSeq(s, from, from) = c THEN from
    ELSE FindLast(s, c, from - 1)

RECURSIVE Split(_, _)
\* String.split(sep) for a one-character separator.
Split(s, sep) ==
    LET i == Find(s, sep, 1)
    IN  IF i = 0 THEN <<s>> ELSE <<SubSeq(s, 1, i - 1)>> \o Split(From(s, i + 1), sep)

RECURSIVE Join(_, _)
\* Array.join(sep).
Join(segs, sep) ==
    IF Len(segs) = 0 THEN ""
    ELSE IF Len(segs) = 1 THEN segs[1]
    ELSE segs[1] \o sep \o Join(Tail(segs), sep)

LowerStr == "abcdefghijklmnopqrstuvwxyz"
UpperStr == "ABCDEFGHIJKLMNOPQRSTUVWXYZ"
DigitStr == "0123456789"

\* The character class \s of the regular expressions.
IsSpace(c) == c \in {" ", "\n", "\t"}

Chars(s) == {Ch(s, i) : i \in 1..Len(s)}
LowerChars == Chars(LowerStr)
UpperChars == Chars(UpperStr)
DigitChars == Chars(DigitStr)

\* The character class [a-z0-9].
IsLowerAlnum(c) == c \in LowerChars \/ c \in DigitChars

RECURSIVE TrimStart(_)
TrimStart(s) == IF Len(s) > 0 /\ IsSpace(Ch(s, 1)) THEN TrimStart(From(s, 2)) ELSE s

RECURSIVE TrimEnd(_)
TrimEnd(s) ==
    IF Len(s) > 0 /\ IsSpace(Ch(s, Len(s))) THEN TrimEnd(SubSeq(s, 1, Len(s) - 1)) ELSE s

\* String.trim().
Trim(s) == TrimEnd(TrimStart(s))

(***************************************************************************)
(* Unicode.  Two ASCII characters stand for the non-ASCII ones the slug    *)
(* normalisation is about: "~" is the precomposed letter e-acute (U+00E9)  *)
(* and "^" is the combining acute accent (U+0301).                          *)
(***************************************************************************)
EAcute == "~"
CombiningAcute == "^"

\* String.toLowerCase(), one character.
ToLowerChar(c) == IF c \in UpperChars THEN Ch(LowerStr, Find(UpperStr, c, 1)) ELSE c

\* String.normalize('NFD'), one character: canonical decomposition.
NFDChar(c) == IF c = EAcute THEN "e" \o CombiningAcute ELSE c

\* The character class [\u0300-\u036f].
IsCombining(c) == c = CombiningAcute

RECURSIVE toLowerCase(_)
\* String.toLowerCase()
toLowerCase(s) == IF Len(s) = 0 THEN "" ELSE ToLowerChar(Ch(s, 1)) \o toLowerCase(From(s, 2))

RECURSIVE normalizeNFD(_)
\* String.normalize('NFD')
normalizeNFD(s) == IF Len(s) = 0 THEN "" ELSE NFDChar(Ch(s, 1)) \o normalizeNFD(From(s, 2))

RECURSIVE StripCombining(_)
\* .replace(/[\u0300-\u036f]/g, '')
StripCombining(s) ==
    IF Len(s) = 0 THEN ""
    ELSE IF IsCombining(Ch(s, 1)) THEN StripCombining(From(s, 2))
    ELSE Ch(s, 1) \o StripCombining(From(s, 2))

RECURSIVE SkipNonAlnum(_)
SkipNonAlnum(s) ==
    IF Len(s) > 0 /\ ~IsLowerAlnum(Ch(s, 1)) THEN SkipNonAlnum(From(s, 2)) ELSE s

RECURSIVE CollapseEach(_)
\* The same replacement without the "+": one '-' per character.
CollapseEach(s) ==
    IF Len(s) = 0 THEN ""
    ELSE IF IsLowerAlnum(Ch(s, 1)) THEN Ch(s, 1) \o CollapseEach(From(s, 2))
    ELSE "-" \o CollapseEach(From(s, 2))

RECURSIVE CollapseRuns(_)
\* .replace(/[^a-z0-9]+/g, '-')
CollapseRuns(s) ==
    IF Len(s) = 0 THEN ""
    ELSE IF IsLowerAlnum(Ch(s, 1)) THEN Ch(s, 1) \o CollapseRuns(From(s, 2))
    ELSE "-" \o CollapseRuns(SkipNonAlnum(s))

\* .replace(/^-|-$/g, ''): one '-' at the start and one at the end of what is left.
TrimDash(s) ==
    LET a == IF StartsWith(s, "-") THEN From(s, 2) ELSE s
    IN  IF EndsWith(a, "-") THEN SubSeq(a, 1, Len(a) - 1) ELSE a

\* The basename part of generateSlug.
slugBasename(title) ==
    TrimDash(CollapseRuns(StripCombining(normalizeNFD(toLowerCase(title)))))

generateSlug(title, type) == type \o "s/" \o slugBasename(title)

(***************************************************************************)
(* The slug clean-up of DELETE.                                            *)
(***************************************************************************)
RECURSIVE RemoveDotDot(_)
\* slug.replace(/\.\./g, '')
RemoveDotDot(s) ==
    IF Len(s) < 2 THEN s
    ELSE IF SubSeq(s, 1, 2) = ".." THEN RemoveDotDot(From(s, 3))
    ELSE Ch(s, 1) \o RemoveDotDot(From(s, 2))

RECURSIVE StripLeadingSlashes(_)
\* .replace(/^\/+/, '')
StripLeadingSlashes(s) == IF StartsWith(s, "/") THEN StripLeadingSlashes(From(s, 2)) ELSE s

\* const sanitizedSlug = slug.replace(/\.\./g, '').replace(/^\/+/, '')
SanitizeSlug(slug) == StripLeadingSlashes(RemoveDotDot(slug))

(***************************************************************************)
(* The requests the model draws from.  "" is a field the request omits.    *)
(***************************************************************************)
CreateBodies ==
    { [title |-> "Weekly Review", type |-> "journal", tags |-> <<"life-os">>,
       content |-> "Body text"],
      [title |-> "Weekly Review", type |-> "a/b", tags |-> <<"life-os">>,
       content |-> "Body text"],
      [title |-> "Weekly Review", type |-> "../brain-old/note", tags |-> <<>>,
       content |-> "Body text"],
      [title |-> "a\"b", type |-> "", tags |-> <<"#x", " ">>, content |-> " x\n"],
      [title |-> "Weekly Review", type |-> "journal", tags |-> <<>>, content |-> ""] }

UpdateBodies ==
    { [title |-> "Weekly Review", type |-> "journal", tags |-> <<"life-os", "edited">>,
       content |-> "New body", date |-> ""],
      [title |-> "a\"b", type |-> "", tags |-> <<>>, content |-> " x\n",
       date |-> "2026-01-30"],
      [title |-> "", type |-> "note", tags |-> <<>>, content |-> "New body", date |-> ""] }

Slugs ==
    { "journals/weekly-review", "journals/other", "notes/a-b", "a/bs/weekly-review",
      "../brain-old/notes/weekly-review", "../journals/weekly-review",
      "../../etc/passwd", "../outside", "/absolute/path" }

(***************************************************************************)
(* Paths (node:path, POSIX).  The process runs in /app, so BRAIN_DIR is    *)
(* /app/brain.                                                             *)
(***************************************************************************)
Cwd == "/app"

RECURSIVE NormSegs(_, _)
\* The segment stack of path.normalize for an absolute path: "" and "." are
\* dropped, ".." pops (and is dropped at the root).
NormSegs(segs, acc) ==
    IF Len(segs) = 0 THEN acc
    ELSE LET h == Head(segs)
         IN  IF h = "" \/ h = "." THEN NormSegs(Tail(segs), acc)
             ELSE IF h = ".."
                  THEN NormSegs(Tail(segs),
                                IF Len(acc) = 0 THEN acc ELSE SubSeq(acc, 1, Len(acc) - 1))
             ELSE NormSegs(Tail(segs), Append(acc, h))

\* path.normalize / path.resolve of an absolute path that names a file.
Normalize(p) == "/" \o Join(NormSegs(Split(p, "/"), <<>>), "/")

BRAIN_DIR == Normalize(Cwd \o "/" \o "brain")

\* Normalize, tabulated once for the paths the model's requests lead to.
RequestSlugs ==
    Slugs \cup {SanitizeSlug(s) : s \in Slugs}
          \cup {generateSlug(b.title, IF b.type = "" THEN "note" ELSE b.type) : b \in CreateBodies}

SanitizeTable == [s \in Slugs |-> SanitizeSlug(s)]

sanitizedSlug(slug) == IF slug \in DOMAIN SanitizeTable THEN SanitizeTable[slug] ELSE SanitizeSlug(slug)

SlugTable ==
    [k \in {<<b.title, IF b.type = "" THEN "note" ELSE b.type>> : b \in CreateBodies} |->
        generateSlug(k[1], k[2])]

\* generateSlug, tabulated for the create requests of the model.
SlugFor(title, type) ==
    IF <<title, type>> \in DOMAIN SlugTable THEN SlugTable[<<title, type>>]
    ELSE generateSlug(title, type)

RequestPaths == {BRAIN_DIR \o "/" \o s \o ".md" : s \in RequestSlugs}

NormalizeTable ==
    [p \in RequestPaths \cup {Normalize(q) : q \in RequestPaths} \cup {BRAIN_DIR} |->
        Normalize(p)]

Normalized(p) == IF p \in DOMAIN NormalizeTable THEN NormalizeTable[p] ELSE Normalize(p)

\* path.join(a, b) for an absolute a.
PathJoin(a, b) == Normalized(a \o "/" \o b)

\* path.resolve(p) for an absolute p.
PathResolve(p) == Normalized(p)

\* path.dirname(p) for a normalized absolute p.
PathDirname(p) ==
    LET i == FindLast(p, "/", Len(p)) IN IF i <= 1 THEN "/" ELSE SubSeq(p, 1, i - 1)

RECURSIVE Ancestors(_)
Ancestors(p) == IF p = "/" THEN {"/"} ELSE {p} \cup Ancestors(PathDirname(p))

DirnameTable ==
    [p \in UNION {Ancestors(NormalizeTable[q]) : q \in DOMAIN NormalizeTable} |-> PathDirname(p)]

Dirname(p) == IF p \in DOMAIN DirnameTable THEN DirnameTable[p] ELSE PathDirname(p)

RECURSIVE DirChain(_)
\* Every directory from the root down to the normalized absolute path d, d included:
\* what mkdir -p makes exist.
DirChain(d) == IF d = "/" THEN {"/"} ELSE {d} \cup DirChain(Dirname(d))

\* The normalized absolute path p lies in the directory tree below d (d excluded).
Below(p, d) == StartsWith(p, IF d = "/" THEN d ELSE d \o "/") /\ p # d

\* The path lies in the tree of BRAIN_DIR.
InsideBrainDir(p) == Below(p, BRAIN_DIR)

\* path.relative(from, to) for normalized absolute paths.
PathRelative(from, to) ==
    LET f == NormSegs(Split(from, "/"), <<>>)
        t == NormSegs(Split(to, "/"), <<>>)
        same == {n \in 0..Len(f) : n <= Len(t) /\ SubSeq(f, 1, n) = SubSeq(t, 1, n)}
        c == CHOOSE n \in same : \A m \in same : m <= n
    IN  Join([i \in 1..(Len(f) - c) |-> ".."] \o SubSeq(t, c + 1, Len(t)), "/")

\* filePathToSlug
filePathToSlug(filePath) ==
    LET rel == PathRelative(BRAIN_DIR, filePath)
    IN  IF EndsWith(rel, ".md") THEN SubSeq(rel, 1, Len(rel) - 3) ELSE rel

(***************************************************************************)
(* The filesystem: files maps the path of every regular file to its        *)
(* content, dirs is the set of directories.                                *)
(***************************************************************************)
\* fs.existsSync
existsSync(fl, ds, p) == p \in DOMAIN fl \/ p \in ds

\* fs.readdirSync(d): the paths of the entries of directory d.
readdirSync(fl, ds, d) == {p \in (DOMAIN fl) \cup ds : Below(p, d) /\ Dirname(p) = d}

\* fs.mkdirSync(d, {recursive: true}) throws when a component is a regular file.
MkdirThrows(fl, d) == DirChain(d) \cap DOMAIN fl # {}

\* The files of the tree below BRAIN_DIR ending in .md: getAllMarkdownFiles.
getAllMarkdownFiles(fl) == {p \in DOMAIN fl : Below(p, BRAIN_DIR) /\ EndsWith(p, ".md")}

(***************************************************************************)
(* The frontmatter codec of the handlers.                                  *)
(***************************************************************************)
\* pat occurs in s at position i.
At(s, pat, i) == i >= 1 /\ i + Len(pat) - 1 <= Len(s) /\ SubSeq(s, i, i + Len(pat) - 1) = pat

RECURSIVE SkipWs(_, _)
\* The position after the greedy \s* that starts at position j.
SkipWs(s, j) == IF j <= Len(s) /\ IsSpace(Ch(s, j)) THEN SkipWs(s, j + 1) ELSE j

RECURSIVE SkipNonWs(_, _)
\* The position after the greedy \S* that starts at position j.
SkipNonWs(s, j) == IF j <= Len(s) /\ ~IsSpace(Ch(s, j)) THEN SkipNonWs(s, j + 1) ELSE j

Least(S) == CHOOSE i \in S : \A j \in S : i <= j

\* t.replace(/^#/, '').trim()
SanitizeTag(t) == Trim(IF StartsWith(t, "#") THEN From(t, 2) ELSE t)

\* tags.map(sanitize).filter(Boolean)
SanitizeTags(tags) == SelectSeq([i \in 1..Len(tags) |-> SanitizeTag(tags[i])], LAMBDA t : t # "")

\* generateFrontmatter of the local POST and PUT handlers (the two are the same text).
generateFrontmatter(title, date, type, tags) ==
    "---\ntitle: \"" \o title \o "\"\ndate: " \o date \o "\ntype: " \o type
        \o "\ntags: [" \o Join(SanitizeTags(tags), ", ") \o "]\n---"

\* A function with one key, and the function with none.
One(k, v) == [x \in {k} |-> v]
None == [x \in {} |-> x]

\* /title:\s*"([^"]+)"/
ParseTitle(fm) ==
    LET q(i) == SkipWs(fm, i + 6)
        hits == {i \in 1..Len(fm) : /\ At(fm, "title:", i)
                                    /\ At(fm, "\"", q(i))
                                    /\ Find(fm, "\"", q(i) + 1) > q(i) + 1}
    IN  IF hits = {} THEN None
        ELSE LET j == q(Least(hits))
             IN  One("title", SubSeq(fm, j + 1, Find(fm, "\"", j + 1) - 1))

\* /<key>\s*(\S+)/ for the keys "date:" and "type:".
ParseWord(fm, key, name) ==
    LET q(i) == SkipWs(fm, i + Len(key))
        hits == {i \in 1..Len(fm) : At(fm, key, i) /\ q(i) <= Len(fm)}
    IN  IF hits = {} THEN None
        ELSE LET j == q(Least(hits)) IN One(name, SubSeq(fm, j, SkipNonWs(fm, j) - 1))

\* /tags:\s*\[([^\]]*)\]/, then split(',').map(trim).filter(Boolean)
ParseTags(fm) ==
    LET q(i) == SkipWs(fm, i + 5)
        hits == {i \in 1..Len(fm) : /\ At(fm, "tags:", i)
                                    /\ At(fm, "[", q(i))
                                    /\ Find(fm, "]", q(i) + 1) > 0}
    IN  IF hits = {} THEN None
        ELSE LET j == q(Least(hits))
                 inner == Split(SubSeq(fm, j + 1, Find(fm, "]", j + 1) - 1), ",")
             IN  One("tags", SelectSeq([i \in 1..Len(inner) |-> Trim(inner[i])],
                                       LAMBDA t : t # ""))

\* A parser whose closing delimiter is /\n---/, without the end of the line.
parseFrontmatterOpenLine(content) ==
    LET k == IF StartsWith(content, "---\n") THEN Find(content, "\n---", 5) ELSE 0
    IN  IF k = 0 THEN [metadata |-> None, content |-> content]
        ELSE LET fm == SubSeq(content, 5, k - 1)
             IN  [metadata |-> ParseTitle(fm) @@ ParseWord(fm, "date:", "date")
                                 @@ ParseWord(fm, "type:", "type") @@ ParseTags(fm),
                  content  |-> Trim(From(content, k + 4))]

\* parseFrontmatter: /^---\n([\s\S]*?)\n---\n([\s\S]*)$/
parseFrontmatter(content) ==
    LET k == IF StartsWith(content, "---\n") THEN Find(content, "\n---\n", 5) ELSE 0
    IN  IF k = 0 THEN [metadata |-> None, content |-> content]
        ELSE LET fm == SubSeq(content, 5, k - 1)
             IN  [metadata |-> ParseTitle(fm) @@ ParseWord(fm, "date:", "date")
                                 @@ ParseWord(fm, "type:", "type") @@ ParseTags(fm),
                  content  |-> Trim(From(content, k + 5))]

(***************************************************************************)
(* gray-matter, as getDocumentBySlug calls it (default options: delimiter  *)
(* ---, YAML).  The YAML reader covers block mappings of one-line entries  *)
(* whose value is a double-quoted scalar, a flow sequence of plain         *)
(* scalars, or a plain scalar; escape sequences are not covered.  Anything *)
(* else makes the library throw, as does text after a closing quote.       *)
(***************************************************************************)
\* A plain scalar that YAML resolves to a timestamp (yyyy-mm-dd) is a Date object.
IsDigits(s) == Len(s) > 0 /\ \A i \in 1..Len(s) : Ch(s, i) \in DigitChars

IsYamlDate(v) ==
    /\ Len(v) = 10 /\ Ch(v, 5) = "-" /\ Ch(v, 8) = "-"
    /\ IsDigits(SubSeq(v, 1, 4)) /\ IsDigits(SubSeq(v, 6, 7)) /\ IsDigits(SubSeq(v, 9, 10))

\* One entry "key: value" of the mapping: [threw, data].
YamlEntry(line) ==
    LET c == Find(line, ":", 1)
        key == SubSeq(line, 1, c - 1)
        v == Trim(From(line, c + 1))
    IN  IF c <= 1 \/ (c < Len(line) /\ ~IsSpace(Ch(line, c + 1)))
        THEN [threw |-> TRUE, data |-> None]
        ELSE IF StartsWith(v, "\"")
        THEN LET e == Find(v, "\"", 2)
             IN  IF e = 0 \/ e < Len(v) \/ Find(v, "\\", 1) > 0
                 THEN [threw |-> TRUE, data |-> None]
                 ELSE [threw |-> FALSE, data |-> One(key, SubSeq(v, 2, e - 1))]
        ELSE IF StartsWith(v, "[")
        THEN IF ~EndsWith(v, "]") \/ Find(v, "]", 1) < Len(v)
             THEN [threw |-> TRUE, data |-> None]
             ELSE LET inner == Split(SubSeq(v, 2, Len(v) - 1), ",")
                  IN  [threw |-> FALSE,
                       data |-> One(key, SelectSeq([i \in 1..Len(inner) |-> Trim(inner[i])],
                                                   LAMBDA t : t # ""))]
        ELSE IF Find(v, ": ", 1) > 0 \/ Find(v, " #", 1) > 0 \/ Find(v, "\"", 1) > 0
        THEN [threw |-> TRUE, data |-> None]
        ELSE [threw |-> FALSE,
              data |-> One(key, IF IsYamlDate(v) THEN "Date(" \o v \o ")" ELSE v)]

RECURSIVE YamlLoad(_)
\* The mapping of a sequence of lines; a later key replaces no earlier one here,
\* since the handlers write each key once.
YamlLoad(lines) ==
    IF Len(lines) = 0 THEN [threw |-> FALSE, data |-> None]
    ELSE IF Trim(Head(lines)) = "" THEN YamlLoad(Tail(lines))
    ELSE LET h == YamlEntry(Head(lines))
             t == YamlLoad(Tail(lines))
         IN  [threw |-> h.threw \/ t.threw, data |-> h.data @@ t.data]

\* matter(fileContent): [threw, data, content].
matter(str) ==
    IF ~StartsWith(str, "---") \/ At(str, "-", 4)
    THEN [threw |-> FALSE, data |-> None, content |-> str]
    ELSE LET rest == From(str, 4)
             nl == Find(rest, "\n", 1)
             lang == Trim(IF nl = 0 THEN rest ELSE SubSeq(rest, 1, nl - 1))
             close == Find(rest, "\n---", 1)
             closeIndex == IF close = 0 THEN Len(rest) + 1 ELSE close
             block == SubSeq(rest, 1, closeIndex - 1)
             after == IF close = 0 THEN "" ELSE From(rest, close + 4)
             y == YamlLoad(Split(block, "\n"))
         IN  IF lang # ""
             THEN [threw |-> TRUE, data |-> None, content |-> ""]
             ELSE [threw |-> y.threw, data |-> y.data,
                   content |-> IF StartsWith(after, "\n") THEN From(after, 2) ELSE after]

(***************************************************************************)
(* The file texts the handlers write, and the two parsers tabulated once   *)
(* for the texts the model's requests lead to.                             *)
(***************************************************************************)
\* new Date().toISOString().split('T')[0]
Today == "2026-11-02"

\* The text written for a new document.
PostFullContent(title, type, tags, content) ==
    generateFrontmatter(title, Today, IF type = "" THEN "note" ELSE type, tags)
        \o "\n\n" \o content

\* The text PUT writes.
PutFullContent(title, type, tags, content, date) ==
    generateFrontmatter(title, IF date = "" THEN Today ELSE date,
                        IF type = "" THEN "note" ELSE type, tags)
        \o "\n\n" \o content

RequestTexts ==
    {PostFullContent(b.title, b.type, b.tags, b.content) : b \in CreateBodies}
    \cup {PutFullContent(b.title, b.type, b.tags, b.content, b.date) : b \in UpdateBodies}

ParseTable == [c \in RequestTexts |-> parseFrontmatter(c)]

Parsed(content) ==
    IF content \in DOMAIN ParseTable THEN ParseTable[content] ELSE parseFrontmatter(content)

MatterTable == [c \in RequestTexts |-> matter(c)]

Mattered(content) == IF content \in DOMAIN MatterTable THEN MatterTable[content] ELSE matter(content)

(***************************************************************************)
(* State.  files and dirs are the filesystem.  req, res and io record the  *)
(* last call: the request, the response, and the filesystem calls the      *)
(* handler made, in order; pre is the filesystem as the call found it.     *)
(***************************************************************************)
Io(call, path) == <<call, path>>

\* What a handler did: its response, its filesystem calls, the filesystem it leaves.
Done(rs, log, fl, ds) == [res |-> rs, io |-> log, files |-> fl, dirs |-> ds]

\* No sync pass has been requested.
NoSync == [pc |-> "idle"]

\* The step of one call: request rq handled with outcome out.
Step(rq, out) ==
    /\ Cardinality(DOMAIN out.files) <= MaxFiles
    /\ req' = rq
    /\ res' = out.res
    /\ io' = out.io
    /\ pre' = [files |-> files, dirs |-> dirs]
    /\ files' = out.files
    /\ dirs' = out.dirs
    /\ UNCHANGED <<remote, sync>>

Init ==
    /\ files = None
    /\ dirs = DirChain(BRAIN_DIR)
    /\ req = [op |-> "none"]
    /\ res = [status |-> "none"]
    /\ io = <<>>
    /\ pre = [files |-> None, dirs |-> DirChain(BRAIN_DIR)]
    /\ remote = None
    /\ sync = NoSync

(***************************************************************************)
(* POST /api/documents: create.                                            *)
(***************************************************************************)
\* The path the new document is written to.
PostFilePath(title, type) ==
    PathJoin(BRAIN_DIR, SlugFor(title, IF type = "" THEN "note" ELSE type) \o ".md")

\* POST without its existence test.
PostExistsSkipped(fl, ds, filePath) == FALSE

\* The existence test of the handler, before it writes.
PostExists(fl, ds, filePath) == existsSync(fl, ds, filePath)

POSTHandler(fl, ds, title, type, tags, content) ==
    LET slug == SlugFor(title, IF type = "" THEN "note" ELSE type)
        filePath == PostFilePath(title, type)
        dir == Dirname(filePath)
        made == ~existsSync(fl, ds, dir)
        ds1 == IF made THEN ds \cup DirChain(dir) ELSE ds
        io1 == <<Io("existsSync", dir)>> \o (IF made THEN <<Io("mkdirSync", dir)>> ELSE <<>>)
        io2 == io1 \o <<Io("existsSync", filePath)>>
    IN  IF title = "" \/ content = ""
        THEN Done([status |-> "BadRequest"], <<>>, fl, ds)
        ELSE IF made /\ MkdirThrows(fl, dir)
        THEN Done([status |-> "ServerError"], io1, fl, ds)
        ELSE IF PostExists(fl, ds1, filePath)
        THEN Done([status |-> "AlreadyExists", slug |-> slug], io2, fl, ds1)
        ELSE IF dir \in DOMAIN fl
        THEN Done([status |-> "ServerError"], io2 \o <<Io("writeFileSync", filePath)>>,
                  fl, ds1)
        ELSE Done([status |-> "Ok", slug |-> slug],
                  io2 \o <<Io("writeFileSync", filePath)>>,
                  (filePath :> PostFullContent(title, type, tags, content)) @@ fl, ds1)

POST(title, type, tags, content) ==
    \E out \in {POSTHandler(files, dirs, title, type, tags, content)} :
        Step([op |-> "create", title |-> title, type |-> type, tags |-> tags,
              content |-> content], out)

(***************************************************************************)
(* PUT /api/documents/[...slug]: update.  slug is slug.join('/').          *)
(***************************************************************************)
\* The "within BRAIN_DIR" test of the PUT, GET and DELETE handlers.
WithinBrainDir(filePath) == StartsWith(PathResolve(filePath), PathResolve(BRAIN_DIR))

\* The path PUT tests and writes.
PutFilePath(slug) == PathJoin(BRAIN_DIR, slug \o ".md")

\* PUT without its existence test.
PutExistsSkipped(fl, ds, filePath) == TRUE

\* The existence test of the handler, before it writes.
PutExists(fl, ds, filePath) == existsSync(fl, ds, filePath)

\* A PUT that moves the document to the slug of its new title and type.
PUTHandlerRenaming(fl, ds, slug, title, type, tags, content, date) ==
    LET filePath == PutFilePath(slug)
        newPath == PostFilePath(title, type)
        io1 == <<Io("existsSync", filePath)>>
    IN  IF title = "" \/ content = ""
        THEN Done([status |-> "BadRequest"], <<>>, fl, ds)
        ELSE IF ~WithinBrainDir(filePath)
        THEN Done([status |-> "InvalidPath"], <<>>, fl, ds)
        ELSE IF ~PutExists(fl, ds, filePath)
        THEN Done([status |-> "NotFound"], io1, fl, ds)
        ELSE Done([status |-> "Ok", slug |-> slug],
                  io1 \o <<Io("unlinkSync", filePath), Io("writeFileSync", newPath)>>,
                  (newPath :> PutFullContent(title, type, tags, content, date))
                      @@ [p \in (DOMAIN fl) \ {filePath} |-> fl[p]],
                  ds \cup DirChain(Dirname(newPath)))

PUTHandler(fl, ds, slug, title, type, tags, content, date) ==
    LET filePath == PutFilePath(slug)
        io1 == <<Io("existsSync", filePath)>>
        io2 == io1 \o <<Io("writeFileSync", filePath)>>
    IN  IF title = "" \/ content = ""
        THEN Done([status |-> "BadRequest"], <<>>, fl, ds)
        ELSE IF ~WithinBrainDir(filePath)
        THEN Done([status |-> "InvalidPath"], <<>>, fl, ds)
        ELSE IF ~PutExists(fl, ds, filePath)
        THEN Done([status |-> "NotFound"], io1, fl, ds)
        ELSE IF filePath \in ds \/ Dirname(filePath) \notin ds
        THEN Done([status |-> "ServerError"], io2, fl, ds)
        ELSE Done([status |-> "Ok", slug |-> slug], io2,
                  (filePath :> PutFullContent(title, type, tags, content, date)) @@ fl, ds)

PUT(slug, title, type, tags, content, date) ==
    \E out \in {PUTHandler(files, dirs, slug, title, type, tags, content, date)} :
        Step([op |-> "update", slug |-> slug, title |-> title, type |-> type,
              tags |-> tags, content |-> content, date |-> date], out)

(***************************************************************************)
(* DELETE /api/documents: delete.                                          *)
(***************************************************************************)
\* The path DELETE tests and unlinks.
DeleteFilePath(slug) == PathJoin(BRAIN_DIR, sanitizedSlug(slug) \o ".md")

\* "Clean up empty directories": the directories removed after filePath is unlinked,
\* given the files fl and directories ds that are left.
CleanedDirs(fl, ds, filePath) ==
    LET dir == Dirname(filePath)
    IN  IF dir # BRAIN_DIR /\ dir \in ds /\ readdirSync(fl, ds, dir) = {} THEN {dir} ELSE {}

\* The filesystem calls of that clean-up.
CleanIo(fl, ds, filePath) ==
    LET dir == Dirname(filePath)
    IN  IF dir = BRAIN_DIR THEN <<>>
        ELSE <<Io("readdirSync", dir)>>
                \o (IF CleanedDirs(fl, ds, filePath) # {} THEN <<Io("rmdirSync", dir)>> ELSE <<>>)

DELETEHandler(fl, ds, slug) ==
    LET filePath == DeleteFilePath(slug)
        io1 == <<Io("existsSync", filePath)>>
        io2 == io1 \o <<Io("unlinkSync", filePath)>>
        fl1 == [p \in (DOMAIN fl) \ {filePath} |-> fl[p]]
    IN  IF slug = ""
        THEN Done([status |-> "BadRequest"], <<>>, fl, ds)
        ELSE IF ~WithinBrainDir(filePath)
        THEN Done([status |-> "InvalidPath"], <<>>, fl, ds)
        ELSE IF ~existsSync(fl, ds, filePath)
        THEN Done([status |-> "NotFound"], io1, fl, ds)
        ELSE IF filePath \in ds
        THEN Done([status |-> "ServerError"], io2, fl, ds)
        ELSE Done([status |-> "Ok"], io2 \o CleanIo(fl1, ds, filePath),
                  fl1, ds \ CleanedDirs(fl1, ds, filePath))

DELETE(slug) ==
    \E out \in {DELETEHandler(files, dirs, slug)} : Step([op |-> "delete", slug |-> slug], out)

(***************************************************************************)
(* The two readers.                                                        *)
(***************************************************************************)
\* The path both readers test and read.
GetFilePath(slug) == PathJoin(BRAIN_DIR, slug \o ".md")

\* The answer of GET /api/documents/[...slug] on the filesystem (fl, ds).
GETResponse(fl, ds, slug) ==
    LET filePath == GetFilePath(slug)
    IN  IF ~WithinBrainDir(filePath) THEN [status |-> "InvalidPath"]
        ELSE IF ~existsSync(fl, ds, filePath) THEN [status |-> "NotFound"]
        ELSE IF filePath \in ds THEN [status |-> "ServerError"]
        ELSE LET parsed == Parsed(fl[filePath])
             IN  [status |-> "Ok",
                  doc |-> One("content", parsed.content) @@ parsed.metadata]

GETIo(fl, ds, slug) ==
    LET filePath == GetFilePath(slug)
    IN  IF ~WithinBrainDir(filePath) THEN <<>>
        ELSE IF ~existsSync(fl, ds, filePath) THEN <<Io("existsSync", filePath)>>
        ELSE <<Io("existsSync", filePath), Io("readFileSync", filePath)>>

GET(slug) ==
    \E out \in {Done(GETResponse(files, dirs, slug), GETIo(files, dirs, slug), files, dirs)} :
        Step([op |-> "GET", slug |-> slug], out)

\* A field of the parsed data, or the default when it is missing or falsy.
OrElse(data, key, default) ==
    IF key \in DOMAIN data /\ data[key] # "" THEN data[key] ELSE default

\* What getDocumentBySlug returns on the filesystem (fl, ds): null, a document, or
\* an exception of the reader.
getDocumentBySlugResult(fl, ds, slug) ==
    LET filePath == GetFilePath(slug)
    IN  IF ~existsSync(fl, ds, filePath) THEN [status |-> "Null"]
        ELSE IF filePath \in ds THEN [status |-> "Throws"]
        ELSE LET m == Mattered(fl[filePath])
             IN  IF m.threw THEN [status |-> "Throws"]
                 ELSE [status |-> "Ok",
                       doc |-> [title   |-> OrElse(m.data, "title", slug),
                                date    |-> OrElse(m.data, "date", ""),
                                type    |-> OrElse(m.data, "type", "note"),
                                tags    |-> IF "tags" \in DOMAIN m.data THEN m.data["tags"]
                                            ELSE <<>>,
                                slug    |-> slug,
                                path    |-> PathRelative(BRAIN_DIR, filePath),
                                content |-> m.content]]

getDocumentBySlugIo(fl, ds, slug) ==
    LET filePath == GetFilePath(slug)
    IN  IF ~existsSync(fl, ds, filePath) THEN <<Io("existsSync", filePath)>>
        ELSE <<Io("existsSync", filePath), Io("readFileSync", filePath)>>

getDocumentBySlug(slug) ==
    \E out \in {Done(getDocumentBySlugResult(files, dirs, slug),
                     getDocumentBySlugIo(files, dirs, slug), files, dirs)} :
        Step([op |-> "get", slug |-> slug], out)

Next ==
    \/ \E b \in CreateBodies : POST(b.title, b.type, b.tags, b.content)
    \/ \E s \in Slugs, b \in UpdateBodies : PUT(s, b.title, b.type, b.tags, b.content, b.date)
    \/ \E s \in Slugs \cup {""} : DELETE(s)
    \/ \E s \in Slugs : GET(s)
    \/ \E s \in Slugs : getDocumentBySlug(s)

Spec == Init /\ [][Next]_vars

(***************************************************************************)
(* generateSlug on its own: every title over a small alphabet, up to       *)
(* MaxTitleLen characters.                                                 *)
(***************************************************************************)
TitleAlphabet == {"a", "B", "7", " ", "-", "_", EAcute, "!"}

RECURSIVE Strings(_)
Strings(n) ==
    IF n = 0 THEN {""}
    ELSE LET S == Strings(n - 1) IN S \cup {s \o c : s \in S, c \in TitleAlphabet}

InitSlug ==
    /\ files = None
    /\ dirs = DirChain(BRAIN_DIR)
    /\ req \in {[op |-> "generateSlug", title |-> t, type |-> ty]
                   : t \in Strings(MaxTitleLen), ty \in {"note", "journal"}}
    /\ res = [status |-> "none"]
    /\ io = <<>>
    /\ pre = [files |-> None, dirs |-> DirChain(BRAIN_DIR)]
    /\ remote = None
    /\ sync = NoSync

ApplyGenerateSlug ==
    /\ res.status = "none"
    /\ res' = [status |-> "Ok", slug |-> generateSlug(req.title, req.type)]
    /\ UNCHANGED <<files, dirs, req, io, pre, remote, sync>>

NextSlug == ApplyGenerateSlug

SpecSlug == InitSlug /\ [][NextSlug]_vars

\* ---------------------------------------------------------------------------
\* Properties of the document store
\* ---------------------------------------------------------------------------

\* The path is the root or lies below it, by path components.
InsideRoot(p) == p = BRAIN_DIR \/ Below(p, BRAIN_DIR)

\* A slug that is absolute or whose resolution leaves the documents root.
EscapesRoot(slug) == StartsWith(slug, "/") \/ ~InsideRoot(GetFilePath(slug))

\* The request carries the two required fields.
ValidBody(rq) == rq.title # "" /\ rq.content # ""

\* The io calls of the last request that change the filesystem.
Mutations == { io[i] : i \in { j \in 1..Len(io) : io[j][1] \in
                 {"mkdirSync", "writeFileSync", "unlinkSync", "rmdirSync"} } }

\* C1: get, update and delete answer InvalidPath, before any filesystem access,
\* to a slug that is absolute or resolves outside the documents root.
C1_EscapingSlugIsInvalidPath ==
    (/\ req.op \in {"get", "update", "delete"}
     /\ req.op = "update" => ValidBody(req)
     /\ EscapesRoot(req.slug))
        => (res.status = "InvalidPath" /\ io = <<>>)

\* C2: no operation reads, writes or removes a path outside the documents root.
C2_NoAccessOutsideRoot ==
    /\ \A p \in DOMAIN files : InsideRoot(p)
    /\ \A d \in dirs : d \in pre.dirs \/ InsideRoot(d)
    /\ \A c \in Mutations : InsideRoot(c[2])

\* C3: create never overwrites: on an existing slug it answers AlreadyExists and
\* changes nothing; on a free slug it writes exactly one new file, the one the
\* returned slug addresses.
C3_CreateNeverOverwrites ==
    req.op = "create" =>
        LET filePath == PostFilePath(req.title, req.type)
            slug == SlugFor(req.title, IF req.type = "" THEN "note" ELSE req.type)
        IN  /\ \A p \in DOMAIN pre.files : p \in DOMAIN files /\ files[p] = pre.files[p]
            /\ ValidBody(req) =>
                 IF filePath \in DOMAIN pre.files
                 THEN res.status = "AlreadyExists" /\ files = pre.files
                 ELSE /\ res.status = "Ok"
                      /\ res.slug = slug
                      /\ DOMAIN files = (DOMAIN pre.files) \cup {filePath}
                      /\ filePathToSlug(filePath) = res.slug

\* A create was refused on a slug whose document has since been edited.
C3_Witness ==
    /\ req.op = "create"
    /\ res.status = "AlreadyExists"
    /\ LET filePath == PostFilePath(req.title, req.type)
       IN  /\ filePath \in DOMAIN files
           /\ files[filePath] # PostFullContent(req.title,
                                    IF req.type = "" THEN "note" ELSE req.type,
                                    req.tags, req.content)

\* C4: after a successful create, reading the returned slug yields the supplied
\* title and the supplied type (note when omitted), a second identical create
\* answers AlreadyExists, and "Weekly Review" of type journal gets the slug
\* journals/weekly-review.
C4_CreateThenGet ==
    (req.op = "create" /\ res.status = "Ok") =>
        LET got == getDocumentBySlugResult(files, dirs, res.slug)
            again == POSTHandler(files, dirs, req.title, req.type, req.tags, req.content)
        IN  /\ got.status = "Ok"
            /\ got.doc.title = req.title
            /\ got.doc.type = (IF req.type = "" THEN "note" ELSE req.type)
            /\ again.res.status = "AlreadyExists"
            /\ (req.title = "Weekly Review" /\ req.type = "journal")
                   => res.slug = "journals/weekly-review"

\* C5: an update of a slug with no document answers NotFound (InvalidPath when the
\* slug leaves the root) and creates nothing; an update that does not succeed
\* leaves the store as it was.
C5_UpdateMissingIsNotFound ==
    req.op = "update" =>
        LET filePath == PutFilePath(req.slug)
        IN  /\ res.status # "Ok" => files = pre.files /\ dirs = pre.dirs
            /\ (ValidBody(req) /\ filePath \notin DOMAIN pre.files) =>
                   /\ res.status \in {"NotFound", "InvalidPath"}
                   /\ InsideRoot(filePath) => res.status = "NotFound"
                   /\ files = pre.files

\* An update of a missing slug was answered NotFound next to an existing document.
C5_Witness ==
    /\ req.op = "update"
    /\ res.status = "NotFound"
    /\ req.slug = "journals/other"
    /\ PutFilePath("journals/weekly-review") \in DOMAIN files

\* C6: a successful update leaves the set of stored slugs unchanged and the
\* document addressable by its slug; only create adds a slug, only delete removes
\* one.
C6_SlugImmutable ==
    /\ (req.op = "update" /\ res.status = "Ok") =>
          /\ DOMAIN files = DOMAIN pre.files
          /\ dirs = pre.dirs
          /\ PutFilePath(req.slug) \in DOMAIN files
          /\ res.slug = req.slug
          /\ getDocumentBySlugResult(files, dirs, req.slug).status # "Null"
    /\ req.op # "create" => DOMAIN files \subseteq DOMAIN pre.files
    /\ req.op # "delete" => DOMAIN pre.files \subseteq DOMAIN files

\* A successful update whose new title and type would derive another slug.
C6_Witness ==
    /\ req.op = "update"
    /\ res.status = "Ok"
    /\ SlugFor(req.title, IF req.type = "" THEN "note" ELSE req.type) # req.slug
    /\ PutFilePath(req.slug) \in DOMAIN files

\* C7: an update replaces the whole document: a read after a successful update
\* returns exactly the supplied title, type, tags and content, with the supplied
\* date, or today's date when none was supplied.
C7_UpdateIsFullReplacement ==
    (req.op = "update" /\ res.status = "Ok") =>
        LET got == GETResponse(files, dirs, req.slug)
        IN  /\ got.status = "Ok"
            /\ got.doc = [title   |-> req.title,
                          date    |-> IF req.date = "" THEN Today ELSE req.date,
                          type    |-> IF req.type = "" THEN "note" ELSE req.type,
                          tags    |-> req.tags,
                          content |-> req.content]

\* C8: a successful delete removes the document's file and then every directory
\* between it and the root that became empty, never the root; a delete of a
\* missing slug answers NotFound and removes nothing.
C8_DeleteRemovesEmptyAncestors ==
    req.op = "delete" =>
        LET filePath == DeleteFilePath(req.slug)
        IN  /\ res.status = "Ok" =>
                /\ filePath \in DOMAIN pre.files
                /\ filePath \notin DOMAIN files
                /\ getDocumentBySlugResult(files, dirs, req.slug).status = "Null"
                /\ BRAIN_DIR \in dirs
                /\ \A d \in DirChain(Dirname(filePath)) :
                       (d \in pre.dirs /\ Below(d, BRAIN_DIR)) =>
                           (d \in dirs <=> readdirSync(files, dirs, d) # {})
            /\ (req.slug # "" /\ filePath \notin DOMAIN pre.files) =>
                   /\ res.status \in {"NotFound", "InvalidPath"}
                   /\ files = pre.files
                   /\ dirs = pre.dirs

\* C9: a delete removes nothing but the file at the exact slug it was given:
\* every other document is still stored, unchanged.
C9_DeleteOnlyExactSlug ==
    req.op = "delete" =>
        \A p \in DOMAIN pre.files :
            filePathToSlug(p) # req.slug => (p \in DOMAIN files /\ files[p] = pre.files[p])

\* ---------------------------------------------------------------------------
\* Properties of slug derivation
\* ---------------------------------------------------------------------------

\* The maximal runs of [a-z0-9] in the string, in order.
RECURSIVE AlnumRuns(_, _)
AlnumRuns(s, cur) ==
    IF s = "" THEN (IF cur = "" THEN <<>> ELSE <<cur>>)
    ELSE IF IsLowerAlnum(Ch(s, 1)) THEN AlnumRuns(From(s, 2), cur \o Ch(s, 1))
    ELSE (IF cur = "" THEN <<>> ELSE <<cur>>) \o AlnumRuns(From(s, 2), "")

\* The characters allowed in the last segment of a slug.
SlugChars == LowerChars \cup DigitChars \cup {"-"}

\* C10: the last segment of a derived slug is the title lowercased, stripped of
\* accents, with every maximal run of other characters replaced by one hyphen and
\* no hyphen at either end: only [a-z0-9-], no "--", no leading or trailing "-".
C10_SlugBasenameShape ==
    (req.op = "generateSlug" /\ res.status = "Ok") =>
        LET prefix == req.type \o "s/"
            base == From(res.slug, Len(prefix) + 1)
            runs == AlnumRuns(StripCombining(normalizeNFD(toLowerCase(req.title))), "")
        IN  /\ StartsWith(res.slug, prefix)
            /\ base = Join(runs, "-")
            /\ \A i \in 1..Len(base) : Ch(base, i) \in SlugChars
            /\ Find(base, "--", 1) = 0
            /\ ~StartsWith(base, "-")
            /\ ~EndsWith(base, "-")

\* A title with an accent, an upper-case letter and a run of separators in the
\* middle has been converted.
C10_Witness ==
    /\ req.op = "generateSlug"
    /\ res.status = "Ok"
    /\ req.title = EAcute \o " -B"
    /\ res.slug = req.type \o "s/e-b"

\* ---------------------------------------------------------------------------
\* Properties of the document type
\* ---------------------------------------------------------------------------

\* The categories of the store.
DocumentTypes == {"concept", "decision", "journal", "note", "reference"}

\* C11: every document stored by create has a type of the closed set and lies in
\* the folder that is the plural of that type, directly below the root; an
\* omitted type is stored as note under notes/.
C11_CreateStoresUnderTypeFolder ==
    (req.op = "create" /\ res.status = "Ok") =>
        LET type == IF req.type = "" THEN "note" ELSE req.type
            filePath == PostFilePath(req.title, req.type)
            m == Parsed(files[filePath]).metadata
        IN  /\ type \in DocumentTypes
            /\ Dirname(filePath) = PathJoin(BRAIN_DIR, type \o "s")
            /\ "type" \in DOMAIN m /\ m["type"] = type

(***************************************************************************)
(* The frontmatter codec on its own: a request is either a set of fields   *)
(* and a body, serialized as PUT does and parsed back, or a raw text given *)
(* to the parser.                                                          *)
(***************************************************************************)
CodecTitles == {"Weekly Review", "a\"b", "T: x"}
CodecDates == {"", "2026-01-30"}
CodecTypes == {"", "journal"}
CodecTags == {<<>>, <<"life-os", "edited">>, <<"#x", " ">>, <<"a,b">>}
CodecBodies == {"Body text", "Body text\n", " x", "a\n---\nb", "# H\n\ntext\n"}

\* The lines raw texts are made of.
CodecLines == {"---", "--", "--- ", "title: \"x\"", "subtitle: \"s\"", "a", ""}

RECURSIVE LineSeqs(_)
\* The non-empty sequences of at most n lines.
LineSeqs(n) ==
    IF n = 0 THEN {}
    ELSE LET S == LineSeqs(n - 1)
         IN  {<<l>> : l \in CodecLines} \cup S \cup {Append(q, l) : q \in S, l \in CodecLines}

InitCodec ==
    /\ files = None
    /\ dirs = DirChain(BRAIN_DIR)
    /\ req \in {[op |-> "roundtrip", title |-> t, date |-> d, type |-> ty, tags |-> tg,
                 content |-> b]
                   : t \in CodecTitles, d \in CodecDates, ty \in CodecTypes,
                     tg \in CodecTags, b \in CodecBodies}
               \cup {[op |-> "parse", lines |-> q, text |-> Join(q, "\n")]
                        : q \in LineSeqs(MaxLines)}
    /\ res = [status |-> "none"]
    /\ io = <<>>
    /\ pre = [files |-> None, dirs |-> DirChain(BRAIN_DIR)]
    /\ remote = None
    /\ sync = NoSync

\* parseFrontmatter of the text PUT writes for the request's fields and body.
ApplyRoundTrip ==
    /\ req.op = "roundtrip"
    /\ res.status = "none"
    /\ LET text == PutFullContent(req.title, req.type, req.tags, req.content, req.date)
       IN  res' = [status |-> "Ok", text |-> text, parsed |-> parseFrontmatter(text)]
    /\ UNCHANGED <<files, dirs, req, io, pre, remote, sync>>

\* parseFrontmatter of a raw text.
ApplyParse ==
    /\ req.op = "parse"
    /\ res.status = "none"
    /\ res' = [status |-> "Ok", parsed |-> parseFrontmatter(req.text)]
    /\ UNCHANGED <<files, dirs, req, io, pre, remote, sync>>

NextCodec == ApplyRoundTrip \/ ApplyParse

SpecCodec == InitCodec /\ [][NextCodec]_vars

\* ---------------------------------------------------------------------------
\* Properties of the codec
\* ---------------------------------------------------------------------------

\* Fields of the documented file format: a title without a double quote, tags
\* that are plain tokens (what the serializer writes for them is what was given).
ValidFields(rq) ==
    /\ rq.title # ""
    /\ Find(rq.title, "\"", 1) = 0
    /\ SanitizeTags(rq.tags) = rq.tags
    /\ \A i \in 1..Len(rq.tags) :
           Find(rq.tags[i], ",", 1) = 0 /\ Find(rq.tags[i], "]", 1) = 0

\* C12: parsing the serialization of valid fields and a body returns the fields
\* after defaulting (date today, type note) and the body as it was given.
C12_RoundTrip ==
    (req.op = "roundtrip" /\ res.status = "Ok" /\ ValidFields(req)) =>
        /\ res.parsed.metadata =
               [title |-> req.title,
                date  |-> IF req.date = "" THEN Today ELSE req.date,
                type  |-> IF req.type = "" THEN "note" ELSE req.type,
                tags  |-> req.tags]
        /\ res.parsed.content = req.content

\* The first line is not the delimiter, or no later line is.
LacksHeader(lines) ==
    \/ lines[1] # "---"
    \/ \A i \in 2..Len(lines) : lines[i] # "---"

\* C13: a text that does not start with a --- line, or has no closing --- line,
\* parses to no fields and a body equal to the whole text.
C13_Leniency ==
    (req.op = "parse" /\ res.status = "Ok" /\ LacksHeader(req.lines)) =>
        res.parsed = [metadata |-> None, content |-> req.text]

\* A text that opens a header with a title line and never closes it was parsed.
C13_Witness ==
    /\ req.op = "parse"
    /\ res.status = "Ok"
    /\ req.lines = <<"---", "title: \"x\"", "--- ", "a">>
    /\ res.parsed.metadata = None
    /\ res.parsed.content = "---\ntitle: \"x\"\n--- \na"

(***************************************************************************)
(* getAllDocuments: the files of the tree in enumeration order, each read  *)
(* through gray-matter, sorted with the comparator of the source.          *)
(* Array.prototype.sort leaves the order implementation-defined when the   *)
(* comparator is not consistent; the engines differ in the order of the    *)
(* two arguments they hand to the comparator (the later element first, or  *)
(* the earlier element first), and the sort is modelled as the insertion   *)
(* sort they run on short arrays, once for each argument order.            *)
(***************************************************************************)
Engines == {"laterFirst", "earlierFirst"}

\* The value of a date field is a Date object or a string that new Date() reads.
ValidDate(d) ==
    \/ StartsWith(d, "Date(") /\ EndsWith(d, ")") /\ IsYamlDate(SubSeq(d, 6, Len(d) - 1))
    \/ IsYamlDate(d)

RECURSIVE DigitsValue(_)
DigitsValue(s) ==
    IF s = "" THEN 0
    ELSE 10 * DigitsValue(SubSeq(s, 1, Len(s) - 1)) + (Find(DigitStr, Ch(s, Len(s)), 1) - 1)

\* new Date(d).getTime() of a valid date, in days (months of 31 days keep the order).
getTime(d) ==
    LET v == IF StartsWith(d, "Date(") THEN SubSeq(d, 6, Len(d) - 1) ELSE d
    IN  (DigitsValue(SubSeq(v, 1, 4)) * 12 + DigitsValue(SubSeq(v, 6, 7))) * 31
            + DigitsValue(SubSeq(v, 9, 10))

\* The comparator of getAllDocuments; a NaN difference counts as 0 in the sort.
compare(a, b) ==
    IF a.date = "" THEN 1
    ELSE IF b.date = "" THEN 0 - 1
    ELSE IF ~ValidDate(a.date) \/ ~ValidDate(b.date) THEN 0
    ELSE getTime(b.date) - getTime(a.date)

\* x is placed before the earlier element e.
Precedes(x, e, engine) ==
    IF engine = "laterFirst" THEN compare(x, e) < 0 ELSE compare(e, x) > 0

RECURSIVE InsertSorted(_, _, _)
InsertSorted(sorted, x, engine) ==
    IF sorted = <<>> THEN <<x>>
    ELSE LET e == sorted[Len(sorted)]
         IN  IF Precedes(x, e, engine)
             THEN Append(InsertSorted(SubSeq(sorted, 1, Len(sorted) - 1), x, engine), e)
             ELSE Append(sorted, x)

RECURSIVE Sort(_, _)
Sort(docs, engine) ==
    IF docs = <<>> THEN <<>>
    ELSE InsertSorted(Sort(SubSeq(docs, 1, Len(docs) - 1), engine), docs[Len(docs)], engine)

\* The metadata getAllDocuments builds for one file.
DocumentMeta(fl, filePath) ==
    LET m == Mattered(fl[filePath])
        slug == filePathToSlug(filePath)
    IN  [threw |-> m.threw,
         title |-> OrElse(m.data, "title", slug),
         date  |-> OrElse(m.data, "date", ""),
         type  |-> OrElse(m.data, "type", "note"),
         tags  |-> IF "tags" \in DOMAIN m.data THEN m.data["tags"] ELSE <<>>,
         slug  |-> slug,
         path  |-> PathRelative(BRAIN_DIR, filePath)]

\* What getAllDocuments returns for the files enumerated in the given order.
getAllDocumentsResult(fl, order, engine) ==
    LET documents == [i \in 1..Len(order) |-> DocumentMeta(fl, order[i])]
    IN  IF \E i \in 1..Len(order) : documents[i].threw
        THEN [status |-> "Throws"]
        ELSE [status |-> "Ok", docs |-> Sort(documents, engine)]

\* The file texts of the listed stores: written by PUT with a date, with a date
\* that is no date, and written by hand without a header.
ListTexts ==
    {PutFullContent("Weekly Review", "journal", <<"life-os">>, "Body text", d)
        : d \in {"2026-01-30", "2026-11-02", "tbd"}}
    \cup {"Just some text, no header"}

ListPath(i) == PathJoin(BRAIN_DIR, "notes/n" \o ToString(i) \o ".md")

InitList ==
    /\ \E k \in 0..MaxDocs :
          /\ files \in [{ListPath(i) : i \in 1..k} -> ListTexts]
          /\ req = [op |-> "list", order |-> [i \in 1..k |-> ListPath(i)]]
          /\ dirs = IF k = 0 THEN DirChain(BRAIN_DIR)
                    ELSE DirChain(PathJoin(BRAIN_DIR, "notes"))
    /\ res = [status |-> "none"]
    /\ io = <<>>
    /\ pre = [files |-> None, dirs |-> DirChain(BRAIN_DIR)]
    /\ remote = None
    /\ sync = NoSync

getAllDocuments ==
    /\ req.op = "list"
    /\ res.status = "none"
    /\ {req.order[i] : i \in 1..Len(req.order)} = getAllMarkdownFiles(files)
    /\ \E engine \in Engines : res' = getAllDocumentsResult(files, req.order, engine)
    /\ UNCHANGED <<files, dirs, req, io, pre, remote, sync>>

NextList == getAllDocuments

SpecList == InitList /\ [][NextList]_vars

\* ---------------------------------------------------------------------------
\* Properties of the list
\* ---------------------------------------------------------------------------

\* The position of the document of a path in the returned list, and in the
\* enumeration.
ListedAt(filePath) ==
    CHOOSE i \in 1..Len(res.docs) : res.docs[i].slug = filePathToSlug(filePath)

EnumeratedAt(slug) ==
    CHOOSE i \in 1..Len(req.order) : filePathToSlug(req.order[i]) = slug

\* C14: the list holds every document once, the documents with a date first, by
\* date descending, then the documents whose date is missing or unparsable, in
\* enumeration order; two documents without a date compare as equal.
C14_ListSortedByDate ==
    (req.op = "list" /\ res.status # "none") =>
        /\ res.status = "Ok"
        /\ Len(res.docs) = Len(req.order)
        /\ \A p \in DOMAIN files : \E i \in 1..Len(res.docs) :
               res.docs[i].slug = filePathToSlug(p)
        /\ \A i, j \in 1..Len(res.docs) :
               LET a == res.docs[i]
                   b == res.docs[j]
               IN  i < j =>
                     /\ ValidDate(b.date) => ValidDate(a.date)
                     /\ (ValidDate(a.date) /\ ValidDate(b.date))
                            => getTime(a.date) >= getTime(b.date)
                     /\ (~ValidDate(a.date) /\ ~ValidDate(b.date))
                            => EnumeratedAt(a.slug) < EnumeratedAt(b.slug)
                     /\ (a.date = "" /\ b.date = "")
                            => (compare(a, b) = 0 /\ compare(b, a) = 0)

(***************************************************************************)
(* POST /api/sync: one pass that uploads every local document to the       *)
(* GitHub repository and deletes the remote documents that have no local   *)
(* counterpart.  The remote tree is a function from repository paths to    *)
(* file contents; GitHub's contents API creates a file on a PUT without    *)
(* sha when the path is free, replaces it on a PUT with the blob sha the   *)
(* path holds, deletes it on a DELETE with that sha, and refuses the call  *)
(* otherwise.                                                              *)
(***************************************************************************)
\* process.env.SYNC_SECRET || 'life-os-sync-2026', with the variable unset.
SYNC_SECRET == "life-os-sync-2026"

\* The authorization headers of the requests: none, or one value.
Headers == {<<>>, <<"Bearer life-os-sync-2026">>, <<"Bearer wrong">>, <<"life-os-sync-2026">>}

\* s.replace(pat, by) with a string pattern: the first occurrence only.
ReplaceFirst(s, pat, by) ==
    LET k == Find(s, pat, 1)
    IN  IF k = 0 THEN s ELSE SubSeq(s, 1, k - 1) \o by \o From(s, k + Len(pat))

\* authHeader?.replace('Bearer ', ''): no value when there is no header.
providedSecret(authHeader) ==
    IF authHeader = <<>> THEN <<>> ELSE <<ReplaceFirst(authHeader[1], "Bearer ", "")>>

AuthorizedOrAbsent(authHeader) ==
    authHeader = <<>> \/ providedSecret(authHeader) = <<SYNC_SECRET>>

\* providedSecret !== SYNC_SECRET is false.
Authorized(authHeader) == providedSecret(authHeader) = <<SYNC_SECRET>>

\* Buffer.from(content).toString('base64') over ASCII text, and its inverse, which
\* the remote applies to the content it receives.
\* The characters of codes 32..95 and 97..126.
AsciiLow == " !\"#$%&'()*+,-./0123456789:;<=>?@ABCDEFGHIJKLMNOPQRSTUVWXYZ[\\]^_"

AsciiHigh == "abcdefghijklmnopqrstuvwxyz{|}~"

Base64Alphabet == UpperStr \o LowerStr \o DigitStr \o "+/"

CharCode(c) ==
    IF c = "\n" THEN 10
    ELSE IF Find(AsciiLow, c, 1) > 0 THEN 31 + Find(AsciiLow, c, 1)
    ELSE 96 + Find(AsciiHigh, c, 1)

FromCharCode(n) ==
    IF n = 10 THEN "\n"
    ELSE IF n <= 95 THEN Ch(AsciiLow, n - 31)
    ELSE Ch(AsciiHigh, n - 96)

Sextet(n) == Ch(Base64Alphabet, n + 1)

SextetValue(c) == Find(Base64Alphabet, c, 1) - 1

RECURSIVE EncodeBytes(_)
EncodeBytes(b) ==
    IF Len(b) = 0 THEN ""
    ELSE IF Len(b) = 1
    THEN Sextet(b[1] \div 4) \o Sextet((b[1] % 4) * 16) \o "=="
    ELSE IF Len(b) = 2
    THEN Sextet(b[1] \div 4) \o Sextet((b[1] % 4) * 16 + b[2] \div 16)
            \o Sextet((b[2] % 16) * 4) \o "="
    ELSE Sextet(b[1] \div 4) \o Sextet((b[1] % 4) * 16 + b[2] \div 16)
            \o Sextet((b[2] % 16) * 4 + b[3] \div 64) \o Sextet(b[3] % 64)
            \o EncodeBytes(SubSeq(b, 4, Len(b)))

RECURSIVE DecodeBytes(_)
DecodeBytes(e) ==
    IF Len(e) < 4 THEN <<>>
    ELSE LET v(i) == SextetValue(Ch(e, i))
             b1 == v(1) * 4 + v(2) \div 16
             b2 == (v(2) % 16) * 16 + v(3) \div 4
             b3 == (v(3) % 4) * 64 + v(4)
         IN  (IF Ch(e, 3) = "=" THEN <<b1>>
              ELSE IF Ch(e, 4) = "=" THEN <<b1, b2>>
              ELSE <<b1, b2, b3>>) \o DecodeBytes(From(e, 5))

RECURSIVE FromBytes(_)
FromBytes(b) == IF Len(b) = 0 THEN "" ELSE FromCharCode(b[1]) \o FromBytes(Tail(b))

Base64Encode(content) == EncodeBytes([i \in 1..Len(content) |-> CharCode(Ch(content, i))])

Base64Decode(e) == FromBytes(DecodeBytes(e))

EncodeTable == [c \in RequestTexts |-> Base64Encode(c)]

EncodedOfNothing(content) == Base64Encode("")

Encoded(content) ==
    IF content \in DOMAIN EncodeTable THEN EncodeTable[content] ELSE Base64Encode(content)

DecodeTable == [e \in {EncodeTable[c] : c \in RequestTexts} |-> Base64Decode(e)]

Decoded(e) == IF e \in DOMAIN DecodeTable THEN DecodeTable[e] ELSE Base64Decode(e)

\* The version token the remote gives a file: the hash of its content.
BlobSha(content) == <<"sha", content>>

\* walkDir(BRAIN_DIR, 'brain'): the repository path of a local file.
LocalRelativePath(p) == "brain" \o From(p, Len(BRAIN_DIR) + 1)

\* getLocalFiles: repository path -> content of every .md file below BRAIN_DIR.
getLocalFiles(fl) ==
    LET found == getAllMarkdownFiles(fl)
    IN  [r \in {LocalRelativePath(p) : p \in found}
            |-> fl[CHOOSE p \in found : LocalRelativePath(p) = r]]

RECURSIVE SeqOf(_)
\* The members of a finite set in some order.
SeqOf(S) == IF S = {} THEN <<>> ELSE LET x == CHOOSE y \in S : TRUE IN <<x>> \o SeqOf(S \ {x})

getLocalFilesIoEnsuringDir(fl, ds) == <<Io("mkdirSync", BRAIN_DIR)>>

\* The filesystem calls of getLocalFiles: walkDir tests and lists BRAIN_DIR and
\* every directory below it, and reads every .md file it finds.  The order of
\* the entries of a listing is the filesystem's.
getLocalFilesIo(fl, ds) ==
    IF ~existsSync(fl, ds, BRAIN_DIR) THEN <<Io("existsSync", BRAIN_DIR)>>
    ELSE LET walked == {BRAIN_DIR} \cup {d \in ds : Below(d, BRAIN_DIR)}
         IN  SeqOf({Io("existsSync", d) : d \in walked}
                   \cup {Io("readdirSync", d) : d \in walked}
                   \cup {Io("readFileSync", p) : p \in getAllMarkdownFiles(fl)})

\* The directories above a repository path, from 'brain' down.
RemoteAncestors(p) ==
    LET segs == Split(p, "/")
    IN  {Join(SubSeq(segs, 1, n), "/") : n \in 1..(Len(segs) - 1)}

RemoteDirs(rm) == UNION {RemoteAncestors(p) : p \in DOMAIN rm}

getGitHubFilesOfAllDirs(rm, failedDirs) ==
    [p \in {q \in DOMAIN rm : EndsWith(q, ".md") /\ "brain" \in RemoteAncestors(q)}
        |-> BlobSha(rm[p])]

\* getGitHubFiles: path -> sha of every .md file reached from 'brain'; a
\* directory whose listing is not answered OK is skipped with all below it.

getGitHubFiles(rm, failedDirs) ==
    [p \in {q \in DOMAIN rm : /\ EndsWith(q, ".md")
                              /\ "brain" \in RemoteAncestors(q)
                              /\ RemoteAncestors(q) \cap failedDirs = {}}
        |-> BlobSha(rm[p])]

\* The remote accepts a PUT of the path with the given sha (<<>>: none).
PutAccepted(rm, filePath, existingSha) ==
    IF filePath \in DOMAIN rm
    THEN existingSha = <<BlobSha(rm[filePath])>>
    ELSE existingSha = <<>>

\* The remote accepts a DELETE of the path with the given sha.
DeleteAccepted(rm, filePath, sha) ==
    filePath \in DOMAIN rm /\ sha = BlobSha(rm[filePath])

(***************************************************************************)
(* The state of the sync route: where the current pass stands (pc), what   *)
(* it enumerated, the paths its current loop has yet to visit (todo), the  *)
(* four result lists, the calls it made, the remote tree it started from,  *)
(* and how the pass before it ended (prev).  The result lists hold each    *)
(* path at most once and are kept as sets.                                 *)
(***************************************************************************)
Running == sync.pc \in {"upload", "delete"}

PassEnded(s) == s.pc \in {"done", "failed", "interrupted"}

\* The pass ran to its summary, every listing was answered and no call failed.
CleanPass(s) == s.pc = "done" /\ s.errors = {} /\ ~s.partial

Previous(s) ==
    IF PassEnded(s)
    THEN [kind |-> IF CleanPass(s) THEN "clean" ELSE "dirty",
          pc |-> s.pc, localFiles |-> s.localFiles]
    ELSE s.prev

\* The record of a request that has done nothing yet.
Fresh(s, authHeader, rm) ==
    [pc |-> "idle", pat |-> s.pat, passes |-> s.passes,
     provided |-> providedSecret(authHeader), status |-> "none",
     localFiles |-> None, githubFiles |-> None, partial |-> FALSE,
     failedDirs |-> {}, todo |-> {},
     created |-> {}, updated |-> {}, deleted |-> {}, errors |-> {},
     calls |-> EmptyBag, start |-> rm, prev |-> Previous(s)]

DeleteEveryEnumerated(s) == DOMAIN s.githubFiles

\* The remote paths the second loop visits.
DeleteCandidates(s) == {p \in DOMAIN s.githubFiles : p \notin DOMAIN s.localFiles}

SettleOnFirstError(s) ==
    IF s.errors # {} /\ s.pc \in {"upload", "delete"}
    THEN [s EXCEPT !.pc = "done", !.status = "Ok", !.todo = {}]
    ELSE IF s.pc = "upload" /\ s.todo = {}
    THEN IF DeleteCandidates(s) = {}
         THEN [s EXCEPT !.pc = "done", !.status = "Ok"]
         ELSE [s EXCEPT !.pc = "delete", !.todo = DeleteCandidates(s)]
    ELSE IF s.pc = "delete" /\ s.todo = {}
    THEN [s EXCEPT !.pc = "done", !.status = "Ok"]
    ELSE s

\* The loops end when nothing is left to visit; the summary follows the second.
Settle(s) ==
    IF s.pc = "upload" /\ s.todo = {}
    THEN IF DeleteCandidates(s) = {}
         THEN [s EXCEPT !.pc = "done", !.status = "Ok"]
         ELSE [s EXCEPT !.pc = "delete", !.todo = DeleteCandidates(s)]
    ELSE IF s.pc = "delete" /\ s.todo = {}
    THEN [s EXCEPT !.pc = "done", !.status = "Ok"]
    ELSE s

UploadPathsChangedOnly(localFiles, githubFiles) ==
    {p \in DOMAIN localFiles :
        p \in DOMAIN githubFiles => githubFiles[p] # BlobSha(localFiles[p])}

\* The paths the first loop visits: every local path.
UploadPaths(localFiles, githubFiles) == DOMAIN localFiles

\* POST up to the first loop: the secret, the token, the two enumerations.
\* failedDirs are the remote directories whose listing is not answered OK; raised
\* tells that a listing call raised instead.
SyncPOSTHandler(s, fl, rm, authHeader, failedDirs, raised) ==
    LET f == Fresh(s, authHeader, rm)
        l == [f EXCEPT !.passes = @ + 1,
                       !.localFiles = getLocalFiles(fl),
                       !.calls = SetToBag({<<"getLocalFiles">>, <<"getGitHubFiles">>})]
    IN  IF ~Authorized(authHeader)
        THEN [f EXCEPT !.pc = "unauthorized", !.status = "Unauthorized"]
        ELSE IF ~s.pat
        THEN [f EXCEPT !.pc = "noToken", !.status = "ServerError"]
        ELSE IF raised
        THEN [l EXCEPT !.pc = "failed", !.status = "ServerError"]
        ELSE Settle([l EXCEPT !.pc = "upload",
                              !.githubFiles = getGitHubFiles(rm, failedDirs),
                              !.partial = failedDirs # {},
                              !.failedDirs = failedDirs,
                              !.todo = UploadPaths(l.localFiles,
                                                   getGitHubFiles(rm, failedDirs))])

SyncPOST(authHeader, failedDirs, raised) ==
    /\ ~Running
    /\ sync.passes < MaxPasses
    /\ sync' = SyncPOSTHandler(sync, files, remote, authHeader, failedDirs, raised)
    /\ req' = [op |-> "sync"]
    /\ res' = [status |-> sync'.status]
    /\ io' = IF Authorized(authHeader) /\ sync.pat THEN getLocalFilesIo(files, dirs) ELSE <<>>
    /\ UNCHANGED <<files, dirs, pre, remote>>

SyncGETHandlerAlwaysConfigured(fl, ds, pat) ==
    Done([status |-> "Ok", localFiles |-> Cardinality(DOMAIN getLocalFiles(fl)),
          githubConfigured |-> TRUE],
         getLocalFilesIo(fl, ds), fl, ds)

\* GET of the sync route, the status check: the number of local documents and
\* whether the token is configured.
SyncGETHandler(fl, ds, pat) ==
    Done([status |-> "Ok", localFiles |-> Cardinality(DOMAIN getLocalFiles(fl)),
          githubConfigured |-> pat],
         getLocalFilesIo(fl, ds), fl, ds)

SyncGET ==
    \E out \in {SyncGETHandler(files, dirs, sync.pat)} :
        /\ req' = [op |-> "status"]
        /\ res' = out.res
        /\ io' = out.io
        /\ files' = out.files
        /\ dirs' = out.dirs
        /\ UNCHANGED <<pre, remote, sync>>

\* The answers of a remote call: OK, not OK, or the call raises.
Outcomes == {"ok", "nonOk", "raise"}

RemainingUntilSuccess(todo, filePath, success) ==
    IF success THEN todo \ {filePath} ELSE todo

\* A loop goes on to its next path, whatever the call for this one gave.
Remaining(todo, filePath, success) == todo \ {filePath}

existingShaOmitted(s, filePath) == <<>>

\* githubFiles.get(filePath): the sha the pass enumerated for the path, if any.
existingSha(s, filePath) ==
    IF filePath \in DOMAIN s.githubFiles THEN <<s.githubFiles[filePath]>> ELSE <<>>

UploadListCreatedOnly(success, sha) == IF success THEN "created" ELSE "errors"

\* The result list a local path is pushed to.
UploadList(success, sha) ==
    IF success THEN IF sha # <<>> THEN "updated" ELSE "created" ELSE "errors"

\* One round of the first loop: syncFileToGitHub for a local path and the push
\* to created, updated or errors.
UploadStep(s, rm, filePath, outcome) ==
    LET sha == existingSha(s, filePath)
        content == Encoded(s.localFiles[filePath])
        success == outcome = "ok"
    IN  [remote |-> IF success THEN (filePath :> Decoded(content)) @@ rm ELSE rm,
         sync |-> Settle([s EXCEPT
             !.todo = Remaining(@, filePath, success),
             !.calls = @ (+) SetToBag({<<"PUT", filePath, sha>>}),
             ![UploadList(success, sha)] = @ \cup {filePath}])]

syncFileToGitHub(filePath, outcome) ==
    /\ sync.pc = "upload"
    /\ filePath \in sync.todo
    /\ outcome = "ok" => PutAccepted(remote, filePath, existingSha(sync, filePath))
    /\ \E out \in {UploadStep(sync, remote, filePath, outcome)} :
          remote' = out.remote /\ sync' = out.sync
    /\ UNCHANGED <<files, dirs, req, res, io, pre>>

\* One round of the second loop: deleteFileFromGitHub for a remote path that is
\* not local, and the push to deleted or errors.
DeleteStep(s, rm, filePath, outcome) ==
    LET sha == s.githubFiles[filePath]
        success == outcome = "ok"
    IN  [remote |-> IF success THEN [p \in (DOMAIN rm) \ {filePath} |-> rm[p]] ELSE rm,
         sync |-> Settle([s EXCEPT
             !.todo = Remaining(@, filePath, success),
             !.calls = @ (+) SetToBag({<<"DELETE", filePath, <<sha>>>>}),
             !.deleted = IF success THEN @ \cup {filePath} ELSE @,
             !.errors = IF success THEN @ ELSE @ \cup {"delete:" \o filePath}])]

deleteFileFromGitHub(filePath, outcome) ==
    /\ sync.pc = "delete"
    /\ filePath \in sync.todo
    /\ outcome = "ok" => DeleteAccepted(remote, filePath, sync.githubFiles[filePath])
    /\ \E out \in {DeleteStep(sync, remote, filePath, outcome)} :
          remote' = out.remote /\ sync' = out.sync
    /\ UNCHANGED <<files, dirs, req, res, io, pre>>

\* The process is stopped in the middle of a pass.
Interrupt ==
    /\ Running
    /\ sync' = [sync EXCEPT !.pc = "interrupted"]
    /\ UNCHANGED <<files, dirs, req, res, io, pre, remote>>

\* Between passes the local tree changes through the document handlers.
SyncCreateBodies ==
    {b \in CreateBodies : /\ b.title = "Weekly Review"
                          /\ b.content # ""
                          /\ InsideBrainDir(PostFilePath(b.title, b.type))}

SyncUpdateBodies == {b \in UpdateBodies : b.title = "Weekly Review"}

SyncUpdateSlugs == {"journals/weekly-review"}

SyncSlugs == {SlugFor(b.title, IF b.type = "" THEN "note" ELSE b.type) : b \in SyncCreateBodies}

LocalChange(out) ==
    /\ ~Running
    /\ out.res.status = "Ok"
    /\ files' = out.files
    /\ dirs' = out.dirs
    /\ UNCHANGED <<req, res, io, pre, remote, sync>>

LocalCreate == \E b \in SyncCreateBodies :
    LocalChange(POSTHandler(files, dirs, b.title, b.type, b.tags, b.content))

LocalUpdate == \E slug \in SyncUpdateSlugs, b \in SyncUpdateBodies :
    LocalChange(PUTHandler(files, dirs, slug, b.title, b.type, b.tags, b.content, b.date))

LocalDelete == \E slug \in SyncSlugs : LocalChange(DELETEHandler(files, dirs, slug))

\* The listings that are not answered OK in one enumeration: none or one.
FailedListings(rm) == {{}} \cup {{d} : d \in RemoteDirs(rm)}

InitSync ==
    /\ files = None
    /\ dirs = DirChain(BRAIN_DIR)
    /\ req = [op |-> "none"]
    /\ res = [status |-> "none"]
    /\ io = <<>>
    /\ pre = [files |-> None, dirs |-> DirChain(BRAIN_DIR)]
    /\ remote = None
    /\ \E pat \in BOOLEAN :
          sync = Fresh([pat |-> pat, passes |-> 0, pc |-> "idle", prev |-> [kind |-> "none"]],
                       <<>>, None)

NextSync ==
    \/ \E h \in Headers, failedDirs \in FailedListings(remote), raised \in BOOLEAN :
          SyncPOST(h, failedDirs, raised)
    \/ \E filePath \in sync.todo, outcome \in Outcomes : syncFileToGitHub(filePath, outcome)
    \/ \E filePath \in sync.todo, outcome \in Outcomes : deleteFileFromGitHub(filePath, outcome)
    \/ Interrupt
    \/ LocalCreate
    \/ LocalUpdate
    \/ LocalDelete

SpecSync == InitSync /\ [][NextSync]_vars

\* The sync route with its status check, which is answered at any time, also
\* while a pass awaits a remote call.
NextStatus ==
    \/ \E h \in Headers, failedDirs \in FailedListings(remote), raised \in BOOLEAN :
          SyncPOST(h, failedDirs, raised)
    \/ \E filePath \in sync.todo, outcome \in Outcomes : syncFileToGitHub(filePath, outcome)
    \/ \E filePath \in sync.todo, outcome \in Outcomes : deleteFileFromGitHub(filePath, outcome)
    \/ SyncGET
    \/ LocalCreate
    \/ LocalDelete

SpecStatus == InitSync /\ [][NextStatus]_vars

(***************************************************************************)
(* Claims about the sync pass.                                             *)
(***************************************************************************)
\* C15: a sync request whose supplied secret is not the configured one, or that
\* supplies none, is answered Unauthorized and nothing of the pass runs: no local
\* or remote enumeration, no remote call, the remote tree as it was.
C15_UnauthorizedRunsNothing ==
    (sync.pc # "idle" /\ sync.provided # <<SYNC_SECRET>>) =>
        /\ sync.status = "Unauthorized"
        /\ sync.calls = EmptyBag
        /\ sync.localFiles = None
        /\ sync.githubFiles = None
        /\ sync.created \cup sync.updated \cup sync.deleted \cup sync.errors = {}
        /\ remote = sync.start

C15_Witness ==
    /\ sync.pc = "unauthorized"
    /\ sync.provided = <<"wrong">>
    /\ sync.pat
    /\ getLocalFiles(files) # None
    /\ remote # getLocalFiles(files)

\* The paths a call of the given kind was made for in the pass.
Issued(s, kind) == {c[2] : c \in {x \in BagToSet(s.calls) : x[1] = kind}}

\* C16: in a sync pass a Delete is issued exactly for the enumerated remote paths
\* that have no local counterpart, once each; no path that exists locally is
\* deleted, and no other remote path disappears.
C16_DeletesExactlyRemoteOnly ==
    LET remoteOnly == {p \in DOMAIN sync.githubFiles : p \notin DOMAIN sync.localFiles}
    IN  /\ Issued(sync, "DELETE") \subseteq remoteOnly
        /\ sync.pc = "done" => Issued(sync, "DELETE") = remoteOnly
        /\ \A c \in BagToSet(sync.calls) : CopiesIn(c, sync.calls) = 1
        /\ sync.deleted \subseteq Issued(sync, "DELETE")
        /\ sync.deleted \cap DOMAIN sync.localFiles = {}
        /\ \A p \in DOMAIN sync.start : p \notin DOMAIN remote => p \in sync.deleted

\* One local document removed after a clean pass of two, then a clean pass.
C16_Witness ==
    /\ sync.pc = "done"
    /\ sync.errors = {}
    /\ sync.prev.kind = "clean"
    /\ Cardinality(DOMAIN sync.prev.localFiles) = 2
    /\ Cardinality(DOMAIN sync.localFiles) = 1
    /\ DOMAIN sync.localFiles \subseteq DOMAIN sync.prev.localFiles
    /\ sync.deleted = DOMAIN sync.prev.localFiles \ DOMAIN sync.localFiles
    /\ DOMAIN remote = DOMAIN sync.localFiles
    /\ DOMAIN sync.start = DOMAIN sync.prev.localFiles

\* C17: from N local documents and an empty remote, a pass in which no remote call
\* fails reports N created and no updated, deleted or failed path; a pass right
\* after it, the local tree as it was, reports nothing created or deleted, N
\* updated, and leaves the remote paths and contents unchanged.
C17_SecondPassChangesNothing ==
    /\ (sync.pc = "done" /\ sync.start = None /\ sync.errors = {}) =>
          /\ sync.created = DOMAIN sync.localFiles
          /\ Cardinality(sync.created) = Cardinality(DOMAIN sync.localFiles)
          /\ sync.updated = {} /\ sync.deleted = {}
    /\ (/\ sync.pc = "done" /\ sync.errors = {} /\ ~sync.partial
        /\ sync.prev.kind = "clean" /\ sync.prev.localFiles = sync.localFiles) =>
          /\ sync.created = {} /\ sync.deleted = {}
          /\ sync.updated = DOMAIN sync.localFiles
          /\ remote = sync.start

C17_Witness ==
    /\ sync.pc = "done" /\ sync.errors = {} /\ ~sync.partial
    /\ sync.prev.kind = "clean" /\ sync.prev.localFiles = sync.localFiles
    /\ Cardinality(sync.updated) = 2
    /\ Cardinality(Issued(sync, "PUT")) = 2

\* C18: a remote operation that fails for one path, by a non-OK answer or a raised
\* error, puts that path in the failure list, and the pass still attempts the
\* operation of every other staged path: every local path and every deletion
\* candidate.
C18_FailureIsolation ==
    LET remoteOnly == {p \in DOMAIN sync.githubFiles : p \notin DOMAIN sync.localFiles}
    IN  /\ \A p \in Issued(sync, "PUT") : p \in sync.created \cup sync.updated \cup sync.errors
        /\ \A p \in Issued(sync, "DELETE") :
              p \in sync.deleted \/ ("delete:" \o p) \in sync.errors
        /\ sync.pc = "upload" => Issued(sync, "PUT") \cup sync.todo = DOMAIN sync.localFiles
        /\ sync.pc = "delete" =>
              /\ Issued(sync, "PUT") = DOMAIN sync.localFiles
              /\ Issued(sync, "DELETE") \cup sync.todo = remoteOnly
        /\ sync.pc = "done" =>
              /\ Issued(sync, "PUT") = DOMAIN sync.localFiles
              /\ Issued(sync, "DELETE") = remoteOnly
        /\ sync.errors # {} => sync.pc \in {"upload", "delete", "done", "interrupted"}

\* A pass that reached its summary with a failed upload and, for another path, a
\* successful delete.
C18_Witness ==
    /\ sync.pc = "done"
    /\ sync.errors \cap DOMAIN sync.localFiles # {}
    /\ sync.deleted # {}

(***************************************************************************)
(* The sync pass when the process is left to run: every remote call the    *)
(* pass awaits returns or raises, so a loop with paths to visit makes its  *)
(* next round.  Nothing obliges a caller to start a pass.                  *)
(***************************************************************************)
UploadRound == \E filePath \in sync.todo, outcome \in Outcomes : syncFileToGitHub(filePath, outcome)

DeleteRound == \E filePath \in sync.todo, outcome \in Outcomes : deleteFileFromGitHub(filePath, outcome)

NextSyncLive ==
    \/ \E h \in Headers, failedDirs \in FailedListings(remote), raised \in BOOLEAN :
          SyncPOST(h, failedDirs, raised)
    \/ UploadRound
    \/ DeleteRound
    \/ LocalCreate
    \/ LocalUpdate
    \/ LocalDelete

SpecSyncLive ==
    InitSync /\ [][NextSyncLive]_vars /\ WF_vars(UploadRound) /\ WF_vars(DeleteRound)

\* C19: every authorized sync pass eventually completes and returns its summary
\* with success status, whichever of its remote calls fail or raise.
C19_AuthorizedPassCompletes ==
    (sync.pc # "idle" /\ sync.provided = <<SYNC_SECRET>> /\ sync.pat) ~> (sync.status = "Ok")

\* The part of C19 that holds: once the loops run, the summary follows.
C19_LoopsReachSummary == (sync.pc \in {"upload", "delete"}) ~> (sync.status = "Ok")

\* C20: after a pass that was interrupted midway or had failures, a later pass that
\* runs to its summary with no remote call failing, the local tree as the earlier
\* pass found it, leaves the remote documents equal to the local ones: the same
\* paths, the same content per path.
C20_NextCleanPassReconciles ==
    (/\ sync.pc = "done" /\ sync.errors = {} /\ ~sync.partial
     /\ sync.prev.kind = "dirty" /\ sync.prev.localFiles = sync.localFiles) =>
        remote = sync.localFiles

\* The earlier pass was interrupted and left the remote tree short of the local one.
C20_Witness ==
    /\ sync.pc = "done" /\ sync.errors = {} /\ ~sync.partial
    /\ sync.prev.kind = "dirty" /\ sync.prev.pc = "interrupted"
    /\ sync.prev.localFiles = sync.localFiles
    /\ Cardinality(DOMAIN sync.localFiles) = 2
    /\ Cardinality(DOMAIN sync.start) = 1
    /\ remote = sync.localFiles

(***************************************************************************)
(* The sync pass next to another writer of the remote repository, who      *)
(* stores or removes a file at any time, also between the enumeration of a *)
(* pass and its calls.                                                     *)
(***************************************************************************)
OtherContent == "# Written elsewhere\n"

\* The repository paths of the documents the model creates locally.
SyncRemotePaths == {LocalRelativePath(PostFilePath(b.title, b.type)) : b \in SyncCreateBodies}

OtherWriterPut(filePath) ==
    /\ remote' = (filePath :> OtherContent) @@ remote
    /\ UNCHANGED <<files, dirs, req, res, io, pre, sync>>

OtherWriterDelete(filePath) ==
    /\ filePath \in DOMAIN remote
    /\ remote' = [p \in (DOMAIN remote) \ {filePath} |-> remote[p]]
    /\ UNCHANGED <<files, dirs, req, res, io, pre, sync>>

NextRace ==
    \/ \E h \in Headers, failedDirs \in FailedListings(remote), raised \in BOOLEAN :
          SyncPOST(h, failedDirs, raised)
    \/ UploadRound
    \/ DeleteRound
    \/ \E filePath \in SyncRemotePaths : OtherWriterPut(filePath)
    \/ \E filePath \in SyncRemotePaths : OtherWriterDelete(filePath)
    \/ LocalCreate

SpecRace == InitSync /\ [][NextRace]_vars

\* The remote entry of the path exists and is not the one the pass enumerated.
ChangedSinceEnumeration(p) ==
    /\ p \in DOMAIN remote
    /\ p \in DOMAIN sync.githubFiles => sync.githubFiles[p] # BlobSha(remote[p])

SyncMutations(log) ==
    {i \in 1..Len(log) : log[i][1] \in {"mkdirSync", "writeFileSync", "unlinkSync", "rmdirSync"}}

\* C22: a sync pass and the status check never create, modify or delete a file of
\* the local document tree: every step of either leaves the local files and
\* directories as they were and makes no changing filesystem call, whatever the
\* remote holds and whichever remote calls fail.
C22_SyncLeavesLocalTree ==
    [][(<<req, res, io, sync, remote>>' # <<req, res, io, sync, remote>>) =>
          /\ files' = files
          /\ dirs' = dirs
          /\ SyncMutations(io') = {}]_vars

\* A pass with a failed and a successful upload has ended, the local tree holds
\* two documents, and the status check was the last request answered.
C22_Witness ==
    /\ req.op = "status"
    /\ sync.pc = "done"
    /\ sync.errors # {}
    /\ sync.created # {}
    /\ Cardinality(DOMAIN files) = 2
    /\ Len(io) > 2

\* C23: the status check answers whether the token is configured and how many
\* local documents there are; it makes no remote call and changes neither the
\* local tree nor the remote one.
C23_StatusCheckOnlyReports ==
    [][(req'.op = "status" /\ <<req, res, io>>' # <<req, res, io>>) =>
          /\ res'.status = "Ok"
          /\ res'.githubConfigured = sync.pat
          /\ res'.localFiles =
                Cardinality({p \in DOMAIN files : InsideBrainDir(p) /\ EndsWith(p, ".md")})
          /\ remote' = remote
          /\ sync'.calls = sync.calls
          /\ files' = files
          /\ dirs' = dirs
          /\ SyncMutations(io') = {}]_vars

\* The status check answered over two documents, no token configured, a remote
\* tree that lacks them.
C23_Witness ==
    /\ req.op = "status"
    /\ res.status = "Ok"
    /\ res.localFiles = 2
    /\ ~res.githubConfigured
    /\ Cardinality(DOMAIN getLocalFiles(files)) = 2
    /\ remote = None

(***************************************************************************)
(* Claims about the loops of a pass and its summary.                       *)
(***************************************************************************)
\* The calls of a kind made for a path in the pass.
CallsFor(s, kind, p) == {c \in BagToSet(s.calls) : c[1] = kind /\ c[2] = p}

\* C24: for every enumerated local path the pass issues exactly one upload: a
\* Create without version token when the remote enumeration lacks the path, an
\* Update with the enumerated token when it holds it, whether or not the content
\* differs; a successful one is counted as created in the first case and as updated
\* in the second.
C24_StagingRule ==
    /\ \A p \in Issued(sync, "PUT") :
          /\ p \in DOMAIN sync.localFiles
          /\ \A c \in CallsFor(sync, "PUT", p) :
                /\ CopiesIn(c, sync.calls) = 1
                /\ c[3] = IF p \in DOMAIN sync.githubFiles
                          THEN <<sync.githubFiles[p]>> ELSE <<>>
          /\ Cardinality(CallsFor(sync, "PUT", p)) = 1
    /\ sync.pc \in {"delete", "done"} => Issued(sync, "PUT") = DOMAIN sync.localFiles
    /\ sync.created = {p \in Issued(sync, "PUT") :
                          p \notin DOMAIN sync.githubFiles /\ p \notin sync.errors}
    /\ sync.updated = {p \in Issued(sync, "PUT") :
                          p \in DOMAIN sync.githubFiles /\ p \notin sync.errors}

\* One path was created and another, whose remote content was already the local
\* one, was updated all the same.
C24_Witness ==
    /\ sync.pc = "done"
    /\ Cardinality(sync.created) = 1
    /\ \E p \in sync.updated :
          /\ p \in DOMAIN sync.start
          /\ sync.start[p] = sync.localFiles[p]
          /\ CallsFor(sync, "PUT", p) = {<<"PUT", p, <<BlobSha(sync.localFiles[p])>>>>}

\* The part of C25 that holds: at the summary every staged operation is in exactly
\* one of the four lists.
C25_EveryOperationListedOnce ==
    sync.pc = "done" =>
        LET remoteOnly == {p \in DOMAIN sync.githubFiles : p \notin DOMAIN sync.localFiles}
            failedUploads == sync.errors \cap DOMAIN sync.localFiles
            failedDeletes == {p \in remoteOnly : ("delete:" \o p) \in sync.errors}
        IN  /\ sync.errors = failedUploads \cup {"delete:" \o p : p \in failedDeletes}
            /\ sync.created \cup sync.updated \cup failedUploads = DOMAIN sync.localFiles
            /\ sync.deleted \cup failedDeletes = remoteOnly
            /\ sync.created \cap sync.updated = {}
            /\ (sync.created \cup sync.updated) \cap failedUploads = {}
            /\ sync.deleted \cap failedDeletes = {}
            /\ Cardinality(sync.created) + Cardinality(sync.updated)
                 + Cardinality(sync.deleted) + Cardinality(sync.errors)
               = Cardinality(DOMAIN sync.localFiles) + Cardinality(remoteOnly)

\* C25: at the end of a completed pass every staged operation is in exactly one of
\* the lists created, updated, deleted, failed, the counts add up to the local
\* paths plus the remote paths without local counterpart, and each failed entry
\* names its path together with a reason.
C25_SummaryAccounting ==
    /\ C25_EveryOperationListedOnce
    /\ sync.pc = "done" =>
          \A e \in sync.errors :
              \E p \in DOMAIN sync.localFiles \cup DOMAIN sync.githubFiles :
                  Len(e) > Len(p) /\ (StartsWith(e, p) \/ EndsWith(e, p))

\* C26: within one pass at most one create, update or delete call is issued per
\* path, also when that call fails; a failed path is attempted again only by a
\* later pass.
C26_NoRetryWithinPass ==
    \A p \in Issued(sync, "PUT") \cup Issued(sync, "DELETE") :
        /\ Cardinality(CallsFor(sync, "PUT", p) \cup CallsFor(sync, "DELETE", p)) = 1
        /\ \A c \in CallsFor(sync, "PUT", p) \cup CallsFor(sync, "DELETE", p) :
              CopiesIn(c, sync.calls) = 1

\* A pass ended with a failed upload that the pass before it had failed as well.
C26_Witness ==
    /\ sync.pc = "done"
    /\ sync.prev.kind = "dirty"
    /\ sync.prev.pc = "done"
    /\ \E p \in sync.errors :
          /\ p \in DOMAIN sync.localFiles
          /\ p \notin DOMAIN remote
          /\ BagCardinality(sync.calls) = 2 + Cardinality(DOMAIN sync.localFiles)

\* C30: a pass issues Deletes only for paths its own remote enumeration returned.
\* When the listing of a remote directory is not answered OK, the entries of that
\* directory are not enumerated, no Delete is issued for them, and the pass goes on
\* with the other directories and paths.
C30_DeletesOnlyEnumerated ==
    LET skipped == {p \in DOMAIN sync.start : RemoteAncestors(p) \cap sync.failedDirs # {}}
    IN  /\ Issued(sync, "DELETE") \subseteq DOMAIN sync.githubFiles
        /\ Issued(sync, "DELETE") \cap skipped = {}
        /\ sync.partial =>
              /\ sync.pc \in {"upload", "delete", "done", "interrupted"}
              /\ DOMAIN sync.githubFiles = (DOMAIN sync.start) \ skipped
              /\ \A p \in skipped : p \in DOMAIN remote /\ remote[p] = sync.start[p]
        /\ (sync.partial /\ sync.pc = "done") =>
              /\ Issued(sync, "PUT") = DOMAIN sync.localFiles
              /\ Issued(sync, "DELETE") = (DOMAIN sync.githubFiles) \ DOMAIN sync.localFiles

\* One remote directory was not listed: its file, gone locally, stays; the file of
\* the other directory, gone locally too, is deleted.
C30_Witness ==
    /\ sync.pc = "done"
    /\ sync.failedDirs # {}
    /\ sync.localFiles = None
    /\ Cardinality(DOMAIN sync.start) = 2
    /\ Cardinality(sync.deleted) = 1
    /\ Cardinality(DOMAIN remote) = 1
    /\ DOMAIN remote \cap DOMAIN sync.githubFiles = {}

(***************************************************************************)
(* Claims about the fields and the body parseFrontmatter returns.          *)
(***************************************************************************)
\* The text parseFrontmatter was applied to.
ParsedText == IF req.op = "roundtrip" THEN res.text ELSE req.text

\* C27: a header field is taken from a line that starts with its key; a line whose
\* key is not exactly title, date, type or tags (subtitle, update, prototype)
\* never supplies the parsed title, date, type or tags.
C27_OnlyRecognizedKeys ==
    (req.op = "parse" /\ res.status = "Ok") =>
        \A key \in DOMAIN res.parsed.metadata :
            \E i \in 1..Len(req.lines) : StartsWith(req.lines[i], key \o ":")

\* The position of the closing delimiter of a well-formed header, or 0.
ClosingDelimiter(text) == IF StartsWith(text, "---\n") THEN Find(text, "\n---\n", 5) ELSE 0

\* Everything after the closing delimiter, less one leading blank line.
BodyLessOneBlankLine(text) ==
    LET rest == From(text, ClosingDelimiter(text) + 5)
    IN  IF StartsWith(rest, "\n") THEN From(rest, 2) ELSE rest

\* C28: for a text with a well-formed header the body parse returns is everything
\* after the closing delimiter with at most one leading blank line removed; other
\* leading and trailing whitespace of the body stays.
C28_BodyKeepsWhitespace ==
    (res.status = "Ok" /\ ClosingDelimiter(ParsedText) > 0) =>
        res.parsed.content = BodyLessOneBlankLine(ParsedText)

(***************************************************************************)
(* Two create requests in flight in one server process.  POST awaits the   *)
(* request body (request.json()) and then runs to its answer without       *)
(* another await: every filesystem call of it is synchronous.  req and res *)
(* hold the two requests and their answers.                                *)
(***************************************************************************)
Requests == {1, 2}

RaceBodies ==
    {b \in CreateBodies : b.content # ""}
        \cup {[title |-> "Weekly review!", type |-> "journal", tags |-> <<>>,
               content |-> "Other text"]}

InitCreates ==
    /\ files = None
    /\ dirs = DirChain(BRAIN_DIR)
    /\ req = [i \in Requests |-> [pc |-> "idle"]]
    /\ res = [i \in Requests |-> [status |-> "none"]]
    /\ io = <<>>
    /\ pre = [files |-> None, dirs |-> DirChain(BRAIN_DIR)]
    /\ remote = None
    /\ sync = NoSync

\* The handler is entered and awaits the body; during tells where the other
\* request stood.
ReceivePOST(i, body) ==
    /\ req[i].pc = "idle"
    /\ req' = [req EXCEPT ![i] = [pc |-> "json", body |-> body,
                                  during |-> req[CHOOSE j \in Requests : j # i].pc]]
    /\ UNCHANGED <<files, dirs, res, io, pre, remote, sync>>

\* The body has arrived: the rest of the handler, in one piece.
RunPOST(i) ==
    /\ req[i].pc = "json"
    /\ \E out \in {POSTHandler(files, dirs, req[i].body.title, req[i].body.type,
                               req[i].body.tags, req[i].body.content)} :
          /\ files' = out.files
          /\ dirs' = out.dirs
          /\ res' = [res EXCEPT ![i] = out.res]
          /\ io' = out.io
    /\ req' = [req EXCEPT ![i].pc = "done"]
    /\ UNCHANGED <<pre, remote, sync>>

NextCreates ==
    \/ \E i \in Requests, body \in RaceBodies : ReceivePOST(i, body)
    \/ \E i \in Requests : RunPOST(i)

SpecCreates == InitCreates /\ [][NextCreates]_vars

\* C29: of two create requests that compute the same slug and are handled
\* concurrently, exactly one is answered with success and the other with
\* AlreadyExists, and the stored file holds the content of the successful one.
C29_OneOfTwoCreatesWins ==
    (/\ \A i \in Requests : req[i].pc = "done"
     /\ PostFilePath(req[1].body.title, req[1].body.type)
          = PostFilePath(req[2].body.title, req[2].body.type)) =>
        \E i \in Requests :
            LET j == CHOOSE k \in Requests : k # i
                b == req[i].body
            IN  /\ res[i].status = "Ok"
                /\ res[j].status = "AlreadyExists"
                /\ files[PostFilePath(b.title, b.type)]
                     = PostFullContent(b.title, b.type, b.tags, b.content)

\* Request 2 came in while request 1 awaited its body, ran first and won; the two
\* bodies differ.
C29_Witness ==
    /\ \A i \in Requests : req[i].pc = "done"
    /\ req[1].during = "idle"
    /\ req[2].during = "json"
    /\ req[1].body.content = "Body text"
    /\ req[2].body.content = "Other text"
    /\ res[2].status = "Ok"
    /\ res[1].status = "AlreadyExists"
    /\ files[PostFilePath("Weekly Review", "journal")]
         = PostFullContent("Weekly review!", "journal", <<>>, "Other text")

====
